---- MODULE Spec2Model ----
(***************************************************************************)
(* Workshop/sessions/13_lstm.ipynb: a character-level LSTM language model. *)
(*                                                                         *)
(* The notebook is a straight-line program of cells run in order: read and *)
(* lowercase the corpus, build the vocabulary, cut the corpus into         *)
(* windows, one-hot encode them, build the network, then train and         *)
(* generate text with the temperature sampler `sample`, and plot the loss. *)
(* The state is the notebook's global variables and the position in the    *)
(* cells (pc); every loop iteration is one step.                           *)
(*                                                                         *)
(* Characters are their code points.  Python sequences are indexed from 0, *)
(* TLA+ sequences from 1: At and Slice do the translation.  Keras is not   *)
(* part of the repository: model.fit and model.predict are modelled by     *)
(* what they may return.                                                   *)
(***************************************************************************)
EXTENDS Integers, Sequences, FiniteSets

VARIABLES
    pc,          \* the statement the notebook executes next
    err,         \* the exception that stopped the notebook, "" if none
    corpus_file, \* the content of nietzsche.txt, as downloaded
    text,        \* cell 1: the lowercased corpus
    chars,       \* cell 2: sorted list of the distinct characters
    char2idx,    \* cell 2: dict character -> index
    idx2char,    \* cell 2: dict index -> character
    maxlen,      \* cell 3: window length
    step,        \* cell 3: window stride
    sentences,   \* cell 3: list of windows
    next_chars,  \* cell 3: list of the characters following each window
    i,           \* the loop variable i (windowing, vectorization, generation)
    sentence,    \* the loop variable of vectorization, the rolling context of generation
    X,           \* cell 4: boolean tensor (len(sentences), maxlen, len(chars))
    y,           \* cell 4: boolean tensor (len(sentences), len(chars))
    epochs,      \* the number of training passes the network's weights have seen
    tr_losses,   \* list of his.history['loss'], one per training pass
    iteration,   \* the loop variable of the training loop
    start_index, \* position of the seed in text
    dv,          \* position of the loop over the diversities
    diversity,   \* the loop variable of that loop, a temperature
    generated,   \* the seed and the characters generated so far
    x,           \* the one-hot encoding of sentence handed to model.predict
    preds,       \* model.predict(x)[0]
    next_index,  \* what sample returned
    next_char,   \* idx2char[next_index]
    py_rng,      \* state of the random module's generator: draws made so far
    np_rng,      \* state of numpy.random's generator: draws made so far
    caller,      \* who called sample: "loop" (the generation loop) or "direct"
    s_preds,     \* sample: the argument and local variable preds
    temperature, \* sample: the argument temperature
    exp_preds,   \* sample: the local variable exp_preds
    probas,      \* sample: the local variable probas
    ret,         \* sample: the value returned
    count_fn,    \* the parameter-count function called: its name
    count_args,  \* its two arguments
    count_ret    \* the value it returned

prepVars == <<corpus_file, text, chars, char2idx, idx2char, maxlen, step,
              sentences, next_chars, X, y>>

trainVars == <<epochs, tr_losses, iteration, start_index, dv, diversity,
               generated, x, preds, next_index, next_char, py_rng>>

sampleVars == <<s_preds, temperature, exp_preds, probas, ret>>

countVars == <<count_fn, count_args, count_ret>>

vars == <<pc, err, i, sentence, caller, countVars, np_rng, prepVars, trainVars,
          sampleVars>>

----------------------------------------------------------------------------
(* Bounds of the model.                                                    *)

\* longest corpus file enumerated
MaxTextLen == 4
\* largest window length enumerated (the notebook sets 40)
MaxMaxlen == 2
\* largest stride enumerated (the notebook sets 3)
MaxStep == 2

\* passes of the training loop: range(1, 60) in the notebook,
\* scaled down
Iterations == 2
\* characters sampled in each generation pass: range(400) in the
\* notebook, scaled down
GenChars == 2

\* the largest number of classes of a probability array handed to sample
MaxClasses == 3
\* the smallest probability enumerated is B^(-MaxLevel)
MaxLevel == 2

\* the largest layer size enumerated besides the notebook's own
MaxDim == 4

\* code points of the corpus files enumerated: "A", "a", "b"
RawAlphabet == {65, 97, 98}

----------------------------------------------------------------------------
(* Python helpers.                                                         *)

Min(a, b) == IF a < b THEN a ELSE b

\* s[k] for a list or string s, 0 <= k < len(s)
At(s, k) == s[k + 1]

\* s[a+1:b+1], a slice that starts one element late
SliceFromNext(s, a, b) == SubSeq(s, a + 2, Min(b + 1, Len(s)))

\* s[a:b] for 0 <= a: the slice is clipped to the sequence, it never raises
Slice(s, a, b) == SubSeq(s, a + 1, Min(b, Len(s)))

\* set(s)
SetOf(s) == {s[k] : k \in 1..Len(s)}

\* str.lower() on one character: "A".."Z" map to "a".."z"
LowerChar(c) == IF c \in 65..90 THEN c + 32 ELSE c

\* str.lower()
Lower(s) == [k \in 1..Len(s) |-> LowerChar(s[k])]

\* sorted(l): ascending, duplicates kept
RECURSIVE SortedList(_)
SortedList(l) ==
    IF l = <<>> THEN <<>>
    ELSE LET k == CHOOSE a \in 1..Len(l) : \A b \in 1..Len(l) : l[a] <= l[b]
         IN <<l[k]>> \o SortedList(SubSeq(l, 1, k - 1) \o SubSeq(l, k + 1, Len(l)))

\* list(set(s)): the distinct elements, in the order the set iterates them
\* (sorted is applied to it, so the order chosen here is immaterial)
RECURSIVE ListOfSet(_)
ListOfSet(S) ==
    IF S = {} THEN <<>>
    ELSE LET c == CHOOSE a \in S : TRUE IN <<c>> \o ListOfSet(S \ {c})

----------------------------------------------------------------------------
(* Cell 2: the vocabulary.                                                 *)

\* sorted(list(text)), the set() forgotten
CharsWithDuplicates(t) == SortedList(t)

\* chars = sorted(list(set(text)))
Chars(t) == SortedList(ListOfSet(SetOf(t)))

\* dict((c, i) for i, c in enumerate(chars)): a later pair replaces an
\* earlier one with the same key
Char2Idx(cs) ==
    [c \in SetOf(cs) |->
        CHOOSE k \in 0..(Len(cs) - 1) :
            /\ At(cs, k) = c
            /\ \A j \in 0..(Len(cs) - 1) : At(cs, j) = c => j <= k]

\* dict((i, c) for i, c in enumerate(chars, 1)), the indices counted from 1
Idx2CharFrom1(cs) == [k \in 1..Len(cs) |-> cs[k]]

\* dict((i, c) for i, c in enumerate(chars))
Idx2Char(cs) == [k \in 0..(Len(cs) - 1) |-> At(cs, k)]

----------------------------------------------------------------------------
(* Cell 4: tensors.  An ndarray is its shape and its entries, the entries  *)
(* a function of the index tuples.                                         *)

\* the index tuples of an array of a 2-D or 3-D shape
Indices(shape) ==
    IF Len(shape) = 2
    THEN {<<a, b>> : a \in 0..(shape[1] - 1), b \in 0..(shape[2] - 1)}
    ELSE {<<a, b, c>> : a \in 0..(shape[1] - 1), b \in 0..(shape[2] - 1),
                        c \in 0..(shape[3] - 1)}

\* np.zeros(shape): every entry zero (False for dtype bool)
Zeros(shape, zero) == [shape |-> shape, data |-> [idx \in Indices(shape) |-> zero]]

\* the first position t of s whose character is no key of char2idx, len(s)
\* if there is none: where the encoding loop over s raises KeyError
FirstMissing(s, c2i) ==
    LET bad == {t \in 0..(Len(s) - 1) : At(s, t) \notin DOMAIN c2i}
    IN IF bad = {} THEN Len(s)
       ELSE CHOOSE t \in bad : \A u \in bad : t <= u

\* arr[:, t, char2idx[char]] = one, the row index dropped
EncodeEveryRow(arr, row, s, c2i, upto, one) ==
    [arr EXCEPT !.data =
        [idx \in DOMAIN arr.data |->
            IF /\ idx[2] < upto
               /\ idx[3] = c2i[At(s, idx[2])]
            THEN one ELSE arr.data[idx]]]

\* for t, char in enumerate(s): arr[row, t, char2idx[char]] = one
\* for the positions before upto
EncodeRow(arr, row, s, c2i, upto, one) ==
    [arr EXCEPT !.data =
        [idx \in DOMAIN arr.data |->
            IF /\ idx[1] = row
               /\ idx[2] < upto
               /\ idx[3] = c2i[At(s, idx[2])]
            THEN one ELSE arr.data[idx]]]

\* arr[row, k] = one
SetEntry2(arr, row, k, one) ==
    [arr EXCEPT !.data =
        [idx \in DOMAIN arr.data |-> IF idx = <<row, k>> THEN one ELSE arr.data[idx]]]

\* whether the writes of EncodeRow stay inside the array (numpy raises
\* IndexError otherwise)
RowFits(arr, row, s, c2i, upto) ==
    \A t \in 0..(upto - 1) : <<row, t, c2i[At(s, t)]>> \in DOMAIN arr.data

----------------------------------------------------------------------------
(* The notebook stops at the first exception.                              *)

Raise(e, frame) ==
    /\ pc' = "error"
    /\ err' = e
    /\ UNCHANGED frame

----------------------------------------------------------------------------
(* Cells 1 to 4: corpus, vocabulary, windows, tensors.                     *)

\* text = open(path).read().lower()
LoadCorpus ==
    /\ pc = "load"
    /\ text' = Lower(corpus_file)
    /\ pc' = "vocab"
    /\ UNCHANGED <<err, i, sentence, caller, countVars, np_rng, trainVars, sampleVars,
                   corpus_file, chars, char2idx, idx2char, maxlen, step,
                   sentences, next_chars, X, y>>

\* chars, char2idx, idx2char
BuildVocabulary ==
    /\ pc = "vocab"
    /\ chars' = Chars(text)
    /\ char2idx' = Char2Idx(chars')
    /\ idx2char' = Idx2Char(chars')
    /\ pc' = "window_init"
    /\ UNCHANGED <<err, i, sentence, caller, countVars, np_rng, trainVars, sampleVars,
                   corpus_file, text, maxlen, step, sentences, next_chars, X, y>>

\* sentences = []; next_chars = []; the loop's range(0, len(text) - maxlen, step)
\* starts at 0
WindowInit ==
    /\ pc = "window_init"
    /\ sentences' = <<>>
    /\ next_chars' = <<>>
    /\ i' = 0
    /\ pc' = "window_loop"
    /\ UNCHANGED <<err, sentence, caller, countVars, np_rng, trainVars, sampleVars,
                   corpus_file, text, chars, char2idx, idx2char, maxlen, step, X, y>>

\* one iteration of the windowing loop, or its end
WindowStep ==
    /\ pc = "window_loop"
    /\ IF i < Len(text) - maxlen
       THEN IF i + maxlen < Len(text)
            THEN /\ sentences' = Append(sentences, Slice(text, i, i + maxlen))
                 /\ next_chars' = Append(next_chars, At(text, i + maxlen))
                 /\ i' = i + step
                 /\ UNCHANGED <<pc, err>>
            ELSE /\ sentences' = Append(sentences, Slice(text, i, i + maxlen))
                 /\ Raise("IndexError", <<next_chars, i>>)
       ELSE /\ pc' = "vec_init"
            /\ UNCHANGED <<err, sentences, next_chars, i>>
    /\ UNCHANGED <<sentence, caller, countVars, np_rng, trainVars, sampleVars,
                   corpus_file, text, chars, char2idx, idx2char, maxlen, step, X, y>>

\* X = np.zeros(...); y = np.zeros(...); enumerate(sentences) starts at 0
VectorizeInit ==
    /\ pc = "vec_init"
    /\ X' = Zeros(<<Len(sentences), maxlen, Len(chars)>>, FALSE)
    /\ y' = Zeros(<<Len(sentences), Len(chars)>>, FALSE)
    /\ i' = 0
    /\ pc' = "vec_loop"
    /\ UNCHANGED <<err, sentence, caller, countVars, np_rng, trainVars, sampleVars,
                   corpus_file, text, chars, char2idx, idx2char, maxlen, step,
                   sentences, next_chars>>

\* one iteration of the outer vectorization loop (its inner loop included),
\* or its end
VectorizeStep ==
    /\ pc = "vec_loop"
    /\ IF i < Len(sentences)
       THEN LET s == At(sentences, i)
                upto == FirstMissing(s, char2idx)
                nc == At(next_chars, i)
            IN /\ sentence' = s
               /\ IF upto < Len(s)
                  THEN /\ X' = EncodeRow(X, i, s, char2idx, upto, TRUE)
                       /\ Raise("KeyError", <<y, i>>)
                  ELSE IF ~RowFits(X, i, s, char2idx, upto)
                  THEN Raise("IndexError", <<X, y, i>>)
                  ELSE /\ X' = EncodeRow(X, i, s, char2idx, upto, TRUE)
                       /\ IF nc \in DOMAIN char2idx
                          THEN /\ y' = SetEntry2(y, i, char2idx[nc], TRUE)
                               /\ i' = i + 1
                               /\ UNCHANGED <<pc, err>>
                          ELSE Raise("KeyError", <<y, i>>)
       ELSE /\ pc' = "build"
            /\ UNCHANGED <<err, sentence, X, y, i>>
    /\ UNCHANGED <<caller, countVars, np_rng, trainVars, sampleVars,
                   corpus_file, text, chars, char2idx, idx2char, maxlen, step,
                   sentences, next_chars>>

----------------------------------------------------------------------------
(* float64 values of sample.                                               *)
(*                                                                         *)
(* A probability is stored by its logarithm: the value B^(n/d) for a fixed *)
(* real B > 1 is the record "pow" with the rational exponent n/d (1 is     *)
(* B^0, a uniform probability 1/N is B^(-1) with B = N), and np.log of it  *)
(* is the record "fin" n/d, in units of ln B.  Division by the temperature *)
(* is exact rational arithmetic; 0, +inf, -inf and NaN are values of their *)
(* own and follow IEEE 754.  Rounding, overflow and underflow of finite    *)
(* values are not modelled.                                                *)

RECURSIVE Gcd(_, _)
Gcd(a, b) == IF b = 0 THEN a ELSE Gcd(b, a % b)

Abs(a) == IF a < 0 THEN -a ELSE a

\* the rational n/d, d # 0, in lowest terms with a positive denominator
Rat(n, d) ==
    LET g == Gcd(Abs(n), Abs(d))
        sgn == IF d < 0 THEN -1 ELSE 1
    IN <<sgn * (n \div g), sgn * (d \div g)>>

\* a < b for rationals in that form
RatLess(a, b) == a[1] * b[2] < b[1] * a[2]

Val(k, n, d) == [k |-> k, n |-> n, d |-> d]
NaN == Val("nan", 0, 1)
PosInf == Val("inf", 0, 1)
NegInf == Val("ninf", 0, 1)
Zero == Val("zero", 0, 1)
\* the probability B^(n/d)
Pow(n, d) == Val("pow", n, d)
\* the logarithm n/d
Fin(n, d) == Val("fin", n, d)
\* after the division by the sum: B^(n/d) over the sum of the array's weights
Frac(n, d) == Val("frac", n, d)

\* np.asarray(preds).astype('float64'): a new array of the same values
AsFloat64(a) == [k \in 1..Len(a) |-> a[k]]

\* np.log of one entry: log(0) is -inf
Log1(v) ==
    CASE v.k = "pow" -> Fin(v.n, v.d)
      [] v.k = "zero" -> NegInf
      [] v.k = "inf" -> PosInf
      [] OTHER -> NaN

\* np.log(preds) * temperature: one entry, multiplied instead of divided
MulTemp(v, t) ==
    CASE v.k = "nan" -> NaN
      [] v.k = "fin" -> LET q == Rat(v.n * t[1], v.d * t[2]) IN Fin(q[1], q[2])
      [] t[1] = 0 -> NaN
      [] v.k = "inf" -> IF t[1] < 0 THEN NegInf ELSE PosInf
      [] OTHER -> IF t[1] < 0 THEN PosInf ELSE NegInf

\* one entry of np.log(preds) divided by the temperature t = <<n, d>>
DivTemp(v, t) ==
    CASE v.k = "nan" -> NaN
      [] v.k = "fin" /\ t[1] = 0 ->
            IF v.n = 0 THEN NaN ELSE IF v.n > 0 THEN PosInf ELSE NegInf
      [] v.k = "fin" /\ t[1] # 0 ->
            LET q == Rat(v.n * t[2], v.d * t[1]) IN Fin(q[1], q[2])
      [] v.k = "inf" -> IF t[1] < 0 THEN NegInf ELSE PosInf
      [] OTHER -> IF t[1] < 0 THEN PosInf ELSE NegInf

\* preds = np.log(preds) / temperature
LogDiv(a, t) == [k \in 1..Len(a) |-> DivTemp(Log1(a[k]), t)]

\* np.exp of one entry: exp(-inf) is 0
Exp1(v) ==
    CASE v.k = "fin" -> Pow(v.n, v.d)
      [] v.k = "ninf" -> Zero
      [] v.k = "inf" -> PosInf
      [] OTHER -> NaN

\* exp_preds = np.exp(preds)
Exp(a) == [k \in 1..Len(a) |-> Exp1(a[k])]

\* np.sum(exp_preds) by its kind: NaN, +inf, 0 or a positive finite sum
SumKind(a) ==
    IF \E k \in 1..Len(a) : a[k].k = "nan" THEN "nan"
    ELSE IF \E k \in 1..Len(a) : a[k].k = "inf" THEN "inf"
    ELSE IF \A k \in 1..Len(a) : a[k].k = "zero" THEN "zero"
    ELSE "pos"

\* a division that guards against a zero sum and leaves the zeros
DivSumGuarded(v, sum) ==
    CASE sum = "nan" -> NaN
      [] sum = "zero" -> Zero
      [] sum = "inf" -> IF v.k = "inf" THEN NaN ELSE Zero
      [] OTHER -> IF v.k = "zero" THEN Zero ELSE Frac(v.n, v.d)

\* one entry of exp_preds / np.sum(exp_preds)
DivSum(v, sum) ==
    CASE sum = "nan" -> NaN
      [] sum = "zero" -> NaN
      [] sum = "inf" -> IF v.k = "inf" THEN NaN ELSE Zero
      [] OTHER -> IF v.k = "zero" THEN Zero ELSE Frac(v.n, v.d)

\* preds = exp_preds / np.sum(exp_preds)
Normalize(a) == [k \in 1..Len(a) |-> DivSum(a[k], SumKind(a))]

\* the indices of positive probability
Support(pvals) == {k \in 0..(Len(pvals) - 1) : At(pvals, k).k = "frac"}

\* the indices np.random.multinomial(1, pvals) may put its one trial on:
\* those of positive probability; a trial that fell on no class is counted
\* for the last one
Outcomes(pvals) ==
    IF Support(pvals) = {} THEN {Len(pvals) - 1} ELSE Support(pvals)

HasNaN(pvals) == \E k \in 1..Len(pvals) : pvals[k].k = "nan"

\* the counts of one trial that fell on index k, for n classes
OneTrial(n, k) == [j \in 1..n |-> IF j = k + 1 THEN 1 ELSE 0]

\* the counts a draw from NaN probabilities may leave (numpy versions that do
\* not reject NaN compute with it)
GarbageCount == {-1, 0, 1}

\* a draw that always falls on the first class of positive probability
MultinomialFirst(pvals) ==
    IF HasNaN(pvals)
    THEN {[raised |-> TRUE, counts |-> <<>>]}
    ELSE {[raised |-> FALSE, counts |-> OneTrial(Len(pvals), k)] :
             k \in {j \in Outcomes(pvals) : \A h \in Outcomes(pvals) : j <= h}}

\* the results np.random.multinomial(1, pvals, 1) may produce: ValueError
\* raised, or the counts of the one trial.  NaN probabilities are rejected
\* by the numpy versions that check for them and computed with by the others.
Multinomial(pvals) ==
    IF HasNaN(pvals)
    THEN {[raised |-> TRUE, counts |-> <<>>]} \cup
         {[raised |-> FALSE, counts |-> c] : c \in [1..Len(pvals) -> GarbageCount]}
    ELSE {[raised |-> FALSE, counts |-> OneTrial(Len(pvals), k)] : k \in Outcomes(pvals)}

\* a draw that leaves the generator where it was
DrawsNone(n) == 0

\* by how much a multinomial draw over n classes advances the generator: it
\* draws one binomial per class but the last until the trial has fallen, so
\* it draws at all only for two or more classes.  The generator state is
\* counted in draws of multinomial that consumed random numbers.
Draws(n) == IF n < 2 THEN 0 ELSE 1

\* np.argmin(probas)
ArgMin(a) ==
    CHOOSE k \in 0..(Len(a) - 1) :
        /\ \A j \in 0..(Len(a) - 1) : At(a, j) >= At(a, k)
        /\ \A j \in 0..(k - 1) : At(a, j) > At(a, k)

\* the position of the largest entry counted from 1
ArgMaxFrom1(a) ==
    CHOOSE k \in 1..Len(a) :
        /\ \A j \in 1..Len(a) : a[j] <= a[k]
        /\ \A j \in 1..(k - 1) : a[j] < a[k]

\* np.argmax(probas): the first index of the largest entry
ArgMax(a) ==
    CHOOSE k \in 0..(Len(a) - 1) :
        /\ \A j \in 0..(Len(a) - 1) : At(a, j) <= At(a, k)
        /\ \A j \in 0..(k - 1) : At(a, j) < At(a, k)

----------------------------------------------------------------------------
(* sample(preds, temperature).                                             *)

\* preds = np.asarray(preds).astype('float64')
\* preds = np.log(preds) / temperature
\* exp_preds = np.exp(preds)
ExpPreds(a, t) == Exp(LogDiv(AsFloat64(a), t))

\* preds = exp_preds / np.sum(exp_preds): the probabilities sample draws with
SampleDist(a, t) == Normalize(ExpPreds(a, t))

\* what neither sample nor the statement calling it assigns
SampleFrame == <<err, i, sentence, caller, countVars, prepVars, epochs, tr_losses, iteration,
                 start_index, dv, diversity, generated, x, preds, next_char,
                 py_rng>>

\* a call of sample, from its first statement to its return (or to the
\* exception np.random.multinomial raises); in the generation loop the
\* calling statement assigns the value returned to next_index
Sample ==
    /\ pc = "sample"
    /\ \E logs \in {LogDiv(AsFloat64(s_preds), temperature)} :
       \E exps \in {Exp(logs)} :
       \E dist \in {Normalize(exps)} :
          /\ exp_preds' = exps
          /\ s_preds' = dist
          /\ \E out \in Multinomial(dist) :
                IF out.raised
                THEN /\ pc' = "error"
                     /\ err' = "ValueError"
                     /\ UNCHANGED <<probas, ret, next_index, np_rng>>
                ELSE /\ probas' = out.counts
                     /\ ret' = ArgMax(out.counts)
                     /\ IF HasNaN(dist)
                        THEN \E n \in 0..Draws(Len(dist)) : np_rng' = np_rng + n
                        ELSE np_rng' = np_rng + Draws(Len(dist))
                     /\ IF caller = "loop"
                        THEN /\ next_index' = ArgMax(out.counts)
                             /\ pc' = "gen_lookup"
                        ELSE /\ pc' = "returned"
                             /\ UNCHANGED next_index
                     /\ UNCHANGED err
    /\ UNCHANGED <<i, sentence, caller, countVars, prepVars, epochs, tr_losses, iteration,
                   start_index, dv, diversity, generated, x, preds, next_char,
                   py_rng, temperature>>

----------------------------------------------------------------------------
(* Cells 5 to 9: the network, the training and generation loop, the plot.  *)

\* for diversity in [0.5, 0.2, 1.0, 1.2], the first two exchanged
DiversitiesReordered == <<Rat(1, 2), Rat(1, 5), Rat(1, 1), Rat(6, 5)>>

\* for diversity in [0.2, 0.5, 1.0, 1.2]
Diversities == <<Rat(1, 5), Rat(1, 2), Rat(1, 1), Rat(6, 5)>>

\* what model.predict(x)[0] may return for n classes: a softmax output, all
\* entries positive.  Enumerated: the uniform output, and one class at
\* B^(-1) with the others at B^(-MaxLevel); the probability 1 for a single
\* class.
Predict(n) ==
    IF n = 1 THEN {<<Pow(0, 1)>>}
    ELSE {[k \in 1..n |-> Pow(-1, 1)]} \cup
         {[k \in 1..n |-> IF k = j THEN Pow(-1, 1) ELSE Pow(-MaxLevel, 1)] : j \in 1..n}

\* model = Sequential(); ...; model.compile(...): untrained weights
BuildModel ==
    /\ pc = "build"
    /\ epochs' = 0
    /\ pc' = "train_init"
    /\ UNCHANGED <<err, i, sentence, caller, countVars, np_rng, prepVars, sampleVars,
                   tr_losses, iteration, start_index, dv, diversity, generated,
                   x, preds, next_index, next_char, py_rng>>

\* tr_losses = []; range(1, 60) starts at 1
TrainInit ==
    /\ pc = "train_init"
    /\ tr_losses' = <<>>
    /\ iteration' = 1
    /\ pc' = "train_loop"
    /\ UNCHANGED <<err, i, sentence, caller, countVars, np_rng, prepVars, sampleVars,
                   epochs, start_index, dv, diversity, generated,
                   x, preds, next_index, next_char, py_rng>>

\* the training loop with one iteration too many, range(1, 61) for
\* range(1, 60)
TrainFitOneMore ==
    /\ pc = "train_loop"
    /\ IF iteration <= Iterations + 1
       THEN /\ epochs' = epochs + 1
            /\ tr_losses' = Append(tr_losses, <<epochs'>>)
            /\ pc' = "seed"
       ELSE /\ pc' = "plot"
            /\ UNCHANGED <<epochs, tr_losses>>
    /\ UNCHANGED <<err, i, sentence, caller, countVars, np_rng, prepVars, sampleVars,
                   iteration, start_index, dv, diversity, generated,
                   x, preds, next_index, next_char, py_rng>>

\* the head of the training loop and its model.fit: one pass over X, y, whose
\* history holds the loss of that pass (a value named by the pass), or the
\* end of the loop
TrainFit ==
    /\ pc = "train_loop"
    /\ IF iteration <= Iterations
       THEN /\ epochs' = epochs + 1
            /\ tr_losses' = Append(tr_losses, <<epochs'>>)
            /\ pc' = "seed"
       ELSE /\ pc' = "plot"
            /\ UNCHANGED <<epochs, tr_losses>>
    /\ UNCHANGED <<err, i, sentence, caller, countVars, np_rng, prepVars, sampleVars,
                   iteration, start_index, dv, diversity, generated,
                   x, preds, next_index, next_char, py_rng>>

\* random.randint(0, len(text) - 1), a seed that may run off the corpus
SeedRangeWholeText(t, m) == 0..(Len(t) - 1)

\* the values random.randint(0, len(text) - maxlen - 1) may return
SeedRange(t, m) == 0..(Len(t) - m - 1)

\* start_index = random.randint(0, len(text) - maxlen - 1): any integer of
\* the closed range, ValueError if the range is empty
PickSeed ==
    /\ pc = "seed"
    /\ IF SeedRange(text, maxlen) = {}
       THEN Raise("ValueError", <<start_index, py_rng, dv>>)
       ELSE /\ start_index' \in SeedRange(text, maxlen)
            /\ py_rng' = py_rng + 1
            /\ dv' = 0
            /\ pc' = "pass_loop"
            /\ UNCHANGED err
    /\ UNCHANGED <<i, sentence, caller, countVars, np_rng, prepVars, sampleVars,
                   epochs, tr_losses, iteration, diversity, generated,
                   x, preds, next_index, next_char>>

\* the loop over the diversities without the reset of generated and sentence:
\* a pass after the first goes on from the context the pass before left
PassStartKeepingContext ==
    /\ pc = "pass_loop"
    /\ IF dv < Len(Diversities)
       THEN /\ diversity' = At(Diversities, dv)
            /\ sentence' = IF dv = 0
                           THEN Slice(text, start_index, start_index + maxlen)
                           ELSE sentence
            /\ generated' = IF dv = 0 THEN sentence' ELSE generated
            /\ i' = 0
            /\ pc' = "gen_loop"
            /\ UNCHANGED iteration
       ELSE /\ iteration' = iteration + 1
            /\ pc' = "train_loop"
            /\ UNCHANGED <<diversity, sentence, generated, i>>
    /\ UNCHANGED <<err, caller, countVars, np_rng, prepVars, sampleVars,
                   epochs, tr_losses, start_index, dv,
                   x, preds, next_index, next_char, py_rng>>

\* the head of the loop over the diversities and the start of a generation
\* pass, or the end of the loop and the next iteration of the training loop
PassStart ==
    /\ pc = "pass_loop"
    /\ IF dv < Len(Diversities)
       THEN /\ diversity' = At(Diversities, dv)
            /\ sentence' = Slice(text, start_index, start_index + maxlen)
            /\ generated' = <<>> \o sentence'
            /\ i' = 0
            /\ pc' = "gen_loop"
            /\ UNCHANGED iteration
       ELSE /\ iteration' = iteration + 1
            /\ pc' = "train_loop"
            /\ UNCHANGED <<diversity, sentence, generated, i>>
    /\ UNCHANGED <<err, caller, countVars, np_rng, prepVars, sampleVars,
                   epochs, tr_losses, start_index, dv,
                   x, preds, next_index, next_char, py_rng>>

\* the head of the generation loop, the encoding of sentence into x,
\* model.predict and the call of sample; or the end of the pass
GenStep ==
    /\ pc = "gen_loop"
    /\ IF i < GenChars
       THEN LET zeros == Zeros(<<1, maxlen, Len(chars)>>, 0)
                upto == FirstMissing(sentence, char2idx)
            IN IF upto < Len(sentence)
               THEN /\ x' = EncodeRow(zeros, 0, sentence, char2idx, upto, 1)
                    /\ Raise("KeyError", <<preds, s_preds, temperature, dv>>)
               ELSE IF ~RowFits(zeros, 0, sentence, char2idx, upto)
               THEN /\ x' = zeros
                    /\ Raise("IndexError", <<preds, s_preds, temperature, dv>>)
               ELSE /\ x' = EncodeRow(zeros, 0, sentence, char2idx, upto, 1)
                    /\ preds' \in Predict(Len(chars))
                    /\ s_preds' = preds'
                    /\ temperature' = diversity
                    /\ pc' = "sample"
                    /\ UNCHANGED <<err, dv>>
       ELSE /\ dv' = dv + 1
            /\ pc' = "pass_loop"
            /\ UNCHANGED <<err, x, preds, s_preds, temperature>>
    /\ UNCHANGED <<i, sentence, caller, countVars, np_rng, prepVars, exp_preds, probas, ret,
                   epochs, tr_losses, iteration, start_index, diversity, generated,
                   next_index, next_char, py_rng>>

\* sentence + next_char, the oldest character kept
RollKeepingAll(s, c) == Append(s, c)

\* sentence[1:] + next_char
Roll(s, c) == Append(Slice(s, 1, Len(s)), c)

\* next_char = idx2char[next_index]; generated += next_char;
\* sentence = sentence[1:] + next_char; the loop's next i
GenLookup ==
    /\ pc = "gen_lookup"
    /\ IF next_index \in DOMAIN idx2char
       THEN /\ next_char' = idx2char[next_index]
            /\ generated' = Append(generated, next_char')
            /\ sentence' = Roll(sentence, next_char')
            /\ i' = i + 1
            /\ pc' = "gen_loop"
            /\ UNCHANGED err
       ELSE Raise("KeyError", <<next_char, generated, sentence, i>>)
    /\ UNCHANGED <<caller, countVars, np_rng, prepVars, sampleVars,
                   epochs, tr_losses, iteration, start_index, dv, diversity,
                   x, preds, next_index, py_rng>>

\* the top-level modules an import statement of the notebook finds: those
\* its first cell imported, and matplotlib
Modules == {"__future__", "keras", "numpy", "random", "timeit", "sys", "matplotlib"}

\* import maptlotlib.pyplot as plt; plt.plot(tr_losses); ...: the import
\* raises ImportError when no module of that name is found, and the cell
\* stops at its first line, before plt.plot(tr_losses)
PlotLosses ==
    /\ pc = "plot"
    /\ IF "maptlotlib" \in Modules
       THEN /\ pc' = "plotted"
            /\ UNCHANGED err
       ELSE /\ pc' = "error"
            /\ err' = "ImportError"
    /\ UNCHANGED <<i, sentence, caller, countVars, np_rng, prepVars, trainVars, sampleVars>>

----------------------------------------------------------------------------
(* Cells 6 to 8: the summary of the network and the parameter counts.      *)

\* model.summary(): Param # of lstm_1, dense_1, dense_2 and Total params,
\* for the 59 characters of the notebook's corpus and layers of 128 units
SummaryVocabulary == 59
SummaryUnits == 128
SummaryLstm == 96256
SummaryDense1 == 16512
SummaryDense2 == 7611
SummaryTotal == 120379

\* an LSTM cell counted with three gates instead of four
num_lstm_params_3(input_dim, num_cells) ==
    3 * (input_dim * num_cells + num_cells * num_cells + num_cells)

\* def num_lstm_params(input_dim, num_cells)
num_lstm_params(input_dim, num_cells) ==
    4 * (input_dim * num_cells + num_cells * num_cells + num_cells)

\* def num_fc_params(input_dim, num_neurons)
num_fc_params(input_dim, num_neurons) ==
    input_dim * num_neurons + num_neurons

\* what is unchanged by a call of a parameter-count function
CountFrame == <<err, i, sentence, caller, np_rng, prepVars, trainVars, sampleVars,
                count_fn, count_args>>

\* a call num_lstm_params(input_dim, num_cells)
CallNumLstmParams ==
    /\ pc = "count"
    /\ count_fn = "num_lstm_params"
    /\ count_ret' = num_lstm_params(count_args[1], count_args[2])
    /\ pc' = "counted"
    /\ UNCHANGED CountFrame

\* a call num_fc_params(input_dim, num_neurons)
CallNumFcParams ==
    /\ pc = "count"
    /\ count_fn = "num_fc_params"
    /\ count_ret' = num_fc_params(count_args[1], count_args[2])
    /\ pc' = "counted"
    /\ UNCHANGED CountFrame

----------------------------------------------------------------------------
(* Initial states.                                                         *)

\* the corpus files enumerated: every string over RawAlphabet of at most
\* MaxTextLen characters
RECURSIVE Strings(_)
Strings(n) ==
    IF n = 0 THEN {<<>>}
    ELSE LET shorter == Strings(n - 1)
         IN shorter \cup {Append(s, c) : s \in {t \in shorter : Len(t) = n - 1},
                                           c \in RawAlphabet}

\* "the cat sat on the mat"
CatMat == <<116, 104, 101, 32, 99, 97, 116, 32, 115, 97, 116, 32,
            111, 110, 32, 116, 104, 101, 32, 109, 97, 116>>

\* "the cat sat"
CatSat == SubSeq(CatMat, 1, 11)

\* an empty tensor, before its cell has run
NoArray == [shape |-> <<>>, data |-> <<>>]

\* the notebook before its first cell runs, but for the corpus and the
\* windowing parameters
Blank ==
    /\ pc = "load"
    /\ err = ""
    /\ text = <<>>
    /\ chars = <<>>
    /\ char2idx = <<>>
    /\ idx2char = <<>>
    /\ sentences = <<>>
    /\ next_chars = <<>>
    /\ i = 0
    /\ sentence = <<>>
    /\ X = NoArray
    /\ y = NoArray
    /\ epochs = 0
    /\ tr_losses = <<>>
    /\ iteration = 0
    /\ start_index = 0
    /\ dv = 0
    /\ diversity = <<1, 1>>
    /\ generated = <<>>
    /\ x = NoArray
    /\ preds = <<>>
    /\ next_index = 0
    /\ next_char = 0
    /\ py_rng = 0
    /\ np_rng = 0
    /\ caller = "loop"
    /\ s_preds = <<>>
    /\ temperature = <<1, 1>>
    /\ exp_preds = <<>>
    /\ probas = <<>>
    /\ ret = 0
    /\ count_fn = ""
    /\ count_args = <<0, 0>>
    /\ count_ret = 0

\* cells 1 to 4 on every enumerated corpus, window length and stride, and on
\* the two worked examples of the documentation
PrepInit ==
    /\ Blank
    /\ \/ /\ corpus_file \in Strings(MaxTextLen)
          /\ maxlen \in 1..MaxMaxlen
          /\ step \in 1..MaxStep
       \/ /\ corpus_file = CatMat
          /\ maxlen = 6
          /\ step = 3
       \/ /\ corpus_file = CatSat
          /\ maxlen = 4
          /\ step = 2

\* the temperatures sample is called with directly: the notebook's, a larger
\* one, zero and two negative ones
TestTemperatures ==
    SetOf(Diversities) \cup {Rat(2, 1), Rat(0, 1), Rat(-1, 1), Rat(-1, 2)}

\* the entries of the probability arrays enumerated: 0 and B^0 .. B^(-MaxLevel)
TestEntries == {Zero} \cup {Pow(-a, 1) : a \in 0..MaxLevel}

\* the probability arrays enumerated: 1 to MaxClasses classes
TestArrays == UNION {[1..n -> TestEntries] : n \in 1..MaxClasses}

\* sample(preds, temperature) called directly on an array preds, as a test of
\* the function calls it, in a notebook whose other cells have not run
SampleInit ==
    /\ err = ""
    /\ corpus_file = <<>>
    /\ maxlen = 1
    /\ step = 1
    /\ text = <<>>
    /\ chars = <<>>
    /\ char2idx = <<>>
    /\ idx2char = <<>>
    /\ sentences = <<>>
    /\ next_chars = <<>>
    /\ i = 0
    /\ sentence = <<>>
    /\ X = NoArray
    /\ y = NoArray
    /\ epochs = 0
    /\ tr_losses = <<>>
    /\ iteration = 0
    /\ start_index = 0
    /\ dv = 0
    /\ diversity = <<1, 1>>
    /\ generated = <<>>
    /\ x = NoArray
    /\ next_index = 0
    /\ next_char = 0
    /\ py_rng = 0
    /\ np_rng = 0
    /\ exp_preds = <<>>
    /\ probas = <<>>
    /\ ret = 0
    /\ count_fn = ""
    /\ count_args = <<0, 0>>
    /\ count_ret = 0
    /\ pc = "sample"
    /\ caller = "direct"
    /\ preds \in TestArrays
    /\ s_preds = preds
    /\ temperature \in TestTemperatures

SampleSpec == SampleInit /\ [][Sample]_vars

\* the layer sizes enumerated: 0 to MaxDim, and the notebook's 59 and 128
Dims == 0..MaxDim \cup {SummaryVocabulary, SummaryUnits}

\* a parameter-count function called directly on two layer sizes, in a
\* notebook whose other cells have not run
CountInit ==
    /\ err = ""
    /\ corpus_file = <<>>
    /\ maxlen = 1
    /\ step = 1
    /\ text = <<>>
    /\ chars = <<>>
    /\ char2idx = <<>>
    /\ idx2char = <<>>
    /\ sentences = <<>>
    /\ next_chars = <<>>
    /\ i = 0
    /\ sentence = <<>>
    /\ X = NoArray
    /\ y = NoArray
    /\ epochs = 0
    /\ tr_losses = <<>>
    /\ iteration = 0
    /\ start_index = 0
    /\ dv = 0
    /\ diversity = <<1, 1>>
    /\ generated = <<>>
    /\ x = NoArray
    /\ preds = <<>>
    /\ next_index = 0
    /\ next_char = 0
    /\ py_rng = 0
    /\ np_rng = 0
    /\ caller = "direct"
    /\ s_preds = <<>>
    /\ temperature = <<1, 1>>
    /\ exp_preds = <<>>
    /\ probas = <<>>
    /\ ret = 0
    /\ pc = "count"
    /\ count_fn \in {"num_lstm_params", "num_fc_params"}
    /\ count_args \in Dims \X Dims
    /\ count_ret = 0

CountNext ==
    \/ CallNumLstmParams
    \/ CallNumFcParams

CountSpec == CountInit /\ [][CountNext]_vars

PrepNext ==
    \/ LoadCorpus
    \/ BuildVocabulary
    \/ WindowInit
    \/ WindowStep
    \/ VectorizeInit
    \/ VectorizeStep

PrepSpec == PrepInit /\ [][PrepNext]_vars

\* "aAbaAb..." of n characters
Pattern(n) == [k \in 1..n |-> IF k % 3 = 1 THEN 97 ELSE IF k % 3 = 2 THEN 65 ELSE 98]

\* the whole notebook on a corpus of every length up to MaxTextLen, with
\* every enumerated window length and stride
Init ==
    /\ Blank
    /\ corpus_file \in {Pattern(n) : n \in 0..MaxTextLen}
    /\ maxlen \in 1..MaxMaxlen
    /\ step \in 1..MaxStep

Next ==
    \/ PrepNext
    \/ BuildModel
    \/ TrainInit
    \/ TrainFit
    \/ PickSeed
    \/ PassStart
    \/ GenStep
    \/ Sample
    \/ GenLookup
    \/ PlotLosses

Spec == Init /\ [][Next]_vars

\* the cells run in order and every statement that can run does run
FairSpec == Spec /\ WF_vars(Next)

----------------------------------------------------------------------------
(* Properties.                                                             *)

\* cell 2 has run
VocabBuilt == pc \notin {"load", "vocab"}

\* the windowing loop of cell 3 has ended
WindowsDone == pc \notin {"load", "vocab", "window_init", "window_loop"}

\* the vectorization loop of cell 4 has ended
VectorsDone == WindowsDone /\ pc \notin {"vec_init", "vec_loop"}

\* C1 -- vocabulary round trip: once the vocabulary is built, every character
\* of the corpus text is a key of char2idx, and idx2char maps its index back
\* to the character.
C1_RoundTrip ==
    VocabBuilt =>
        \A k \in 1..Len(text) :
            /\ text[k] \in DOMAIN char2idx
            /\ char2idx[text[k]] \in DOMAIN idx2char
            /\ idx2char[char2idx[text[k]]] = text[k]

\* a corpus whose capitals were lowered, of three characters and two distinct
\* ones, after the vocabulary cell
C1_Witness ==
    /\ VocabBuilt
    /\ corpus_file # text
    /\ Len(text) = 3
    /\ Cardinality(SetOf(text)) = 2
    /\ idx2char[char2idx[text[3]]] = text[3]

\* the k-th window (k from 1) starts at (k - 1) * step
WindowAt(k) == [j \in 1..maxlen |-> text[(k - 1) * step + j]]

\* the number of i = 0, step, 2 * step, ... with i < len(text) - maxlen
WindowCount == Cardinality({k \in 0..Len(text) : k * step < Len(text) - maxlen})

\* C2 -- windowing: sentences and next_chars are aligned, the k-th pair is
\* (text[i : i + maxlen], text[i + maxlen]) for i = (k - 1) * step, in
\* increasing order of i; when the loop ends there is one pair for each
\* i = 0, step, ... below len(text) - maxlen; "the cat sat on the mat" with
\* maxlen 6 and step 3 starts with the four documented pairs and "the cat
\* sat" with window 4 and stride 2 gives exactly its four pairs.
C2_Windowing ==
    /\ Len(sentences) = Len(next_chars)
    /\ \A k \in 1..Len(sentences) :
          /\ sentences[k] = WindowAt(k)
          /\ next_chars[k] = text[(k - 1) * step + maxlen + 1]
    /\ WindowsDone => Len(sentences) = WindowCount
    /\ (WindowsDone /\ corpus_file = CatSat /\ maxlen = 4 /\ step = 2) =>
          /\ sentences = << <<116, 104, 101, 32>>, <<101, 32, 99, 97>>,
                            <<99, 97, 116, 32>>, <<116, 32, 115, 97>> >>
          /\ next_chars = <<99, 116, 115, 116>>
    /\ (WindowsDone /\ corpus_file = CatMat /\ maxlen = 6 /\ step = 3) =>
          /\ SubSeq(sentences, 1, 4) =
                << <<116, 104, 101, 32, 99, 97>>, <<32, 99, 97, 116, 32, 115>>,
                   <<116, 32, 115, 97, 116, 32>>, <<97, 116, 32, 111, 110, 32>> >>
          /\ SubSeq(next_chars, 1, 4) = <<116, 97, 111, 116>>

\* the windowing loop has ended on "the cat sat" with window 4 and stride 2
C2_Witness ==
    /\ WindowsDone
    /\ corpus_file = CatSat
    /\ maxlen = 4
    /\ step = 2
    /\ Len(sentences) = 4

\* C4 -- the vocabulary mappings are mutually inverse bijections between the
\* distinct characters of the corpus and 0..N-1: both have exactly N entries,
\* char2idx[idx2char[k]] = k for every k, and the indices follow the order of
\* the characters.
C4_Bijection ==
    VocabBuilt =>
        LET S == SetOf(text)
            N == Cardinality(S)
        IN /\ DOMAIN char2idx = S
           /\ DOMAIN idx2char = 0..(N - 1)
           /\ Len(chars) = N
           /\ \A k \in 0..(N - 1) :
                 /\ idx2char[k] \in S
                 /\ char2idx[idx2char[k]] = k
           /\ \A c, d \in S : c < d => char2idx[c] < char2idx[d]

\* a corpus of four characters, two of them distinct, after the vocabulary
\* cell
C4_Witness ==
    /\ VocabBuilt
    /\ Len(text) = 4
    /\ Cardinality(DOMAIN char2idx) = 2
    /\ Cardinality(DOMAIN idx2char) = 2

\* C5 -- one-hot vectorization: after the vectorization loop X has shape
\* (windows, maxlen, N) and y has shape (windows, N); X[i, t, k] is set iff
\* k = char2idx[sentences[i][t]] and y[i, k] iff k = char2idx[next_chars[i]],
\* so exactly one entry is set for each (i, t) and for each i.
C5_OneHot ==
    VectorsDone =>
        LET n == Len(sentences)
            N == Cardinality(SetOf(text))
        IN /\ X.shape = <<n, maxlen, N>>
           /\ y.shape = <<n, N>>
           /\ DOMAIN X.data = (0..(n - 1)) \X (0..(maxlen - 1)) \X (0..(N - 1))
           /\ DOMAIN y.data = (0..(n - 1)) \X (0..(N - 1))
           /\ \A idx \in DOMAIN X.data :
                 X.data[idx] = (idx[3] = char2idx[At(At(sentences, idx[1]), idx[2])])
           /\ \A idx \in DOMAIN y.data :
                 y.data[idx] = (idx[2] = char2idx[At(next_chars, idx[1])])
           /\ \A a \in 0..(n - 1) :
                 /\ Cardinality({k \in 0..(N - 1) : y.data[<<a, k>>]}) = 1
                 /\ \A t \in 0..(maxlen - 1) :
                       Cardinality({k \in 0..(N - 1) : X.data[<<a, t, k>>]}) = 1

\* two windows of two characters over a vocabulary of two, encoded
C5_Witness ==
    /\ VectorsDone
    /\ Len(sentences) = 2
    /\ maxlen = 2
    /\ Len(chars) = 2
    /\ sentences[1] # sentences[2]
    /\ X.data[<<1, 1, char2idx[sentences[2][2]]>>]

\* a generation pass is under way: the seed has been read
InPass == pc \in {"gen_loop", "sample", "gen_lookup"}

\* start_index has been drawn in this iteration
SeedPicked == InPass \/ pc = "pass_loop"

\* C3 -- window indices stay within the corpus, whatever its length: no read
\* of text raises IndexError, the next read text[i + maxlen] of the windowing
\* loop is a position of text, every window has exactly maxlen characters,
\* and a seed is read only at positions start_index .. start_index+maxlen-1
\* inside text, so it has exactly maxlen characters; a corpus no longer than
\* maxlen gives no window and no seed.
C3_IndicesInBounds ==
    /\ err # "IndexError"
    /\ (pc = "window_loop" /\ i < Len(text) - maxlen) =>
          (0 <= i /\ i + maxlen \in 0..(Len(text) - 1))
    /\ \A k \in 1..Len(sentences) : Len(sentences[k]) = maxlen
    /\ SeedPicked =>
          /\ start_index \in 0..(Len(text) - 1)
          /\ start_index + maxlen - 1 \in 0..(Len(text) - 1)
    /\ InPass =>
          /\ Len(generated) >= maxlen
          /\ SubSeq(generated, 1, maxlen) = [j \in 1..maxlen |-> text[start_index + j]]
    /\ (pc = "gen_loop" /\ i = 0) => Len(sentence) = maxlen
    /\ Len(text) <= maxlen => (sentences = <<>> /\ ~SeedPicked)

\* a pass that starts from the last seed the corpus allows, after a windowing
\* that produced two windows
C3_Witness ==
    /\ pc = "gen_loop"
    /\ i = 0
    /\ Len(sentences) = 2
    /\ start_index > 0
    /\ start_index + maxlen = Len(text) - 1
    /\ Len(sentence) = maxlen

\* C7 as claimed -- sample is pure: a call leaves all program state that
\* existed before it unchanged, the state of numpy's generator included.
C7_Pure == [][pc = "sample" => UNCHANGED <<SampleFrame, np_rng>>]_vars

\* C7 as amended -- a call of sample changes no program state but the state
\* of numpy's process-wide generator, which its multinomial draw advances
\* when it draws over two or more classes from valid probabilities, and
\* leaves alone for a single class.
C7_PureButGenerator ==
    [][pc = "sample" =>
          /\ UNCHANGED SampleFrame
          /\ Len(s_preds) < 2 => np_rng' = np_rng
          /\ (Len(s_preds) >= 2 /\ ~HasNaN(s_preds') /\ pc' # "error") =>
                np_rng' # np_rng]_vars

\* sample has returned into the generation loop from a draw over two classes,
\* and the generator has moved
C7_Witness ==
    /\ pc = "gen_lookup"
    /\ Len(preds) = 2
    /\ np_rng > 0
    /\ generated # <<>>

\* a direct call of sample is over: it returned or raised
AfterCall == caller = "direct" /\ pc # "sample"

\* the temperature t = <<n, d>> is positive
Positive(t) == t[1] > 0

\* probability 1 on index k, 0 elsewhere
IsOneHot(a, k) ==
    \A j \in 0..(Len(a) - 1) : At(a, j) = IF j = k THEN Pow(0, 1) ELSE Zero

\* C6 -- for a one-hot input distribution (probability 1 on index k, 0
\* elsewhere) sample returns k, at every positive temperature.
C6_OneHotReturnsIndex ==
    \A k \in 0..(Len(preds) - 1) :
        (AfterCall /\ IsOneHot(preds, k) /\ Positive(temperature)) =>
            (pc = "returned" /\ ret = k)

\* sample(<<0, 1, 0>>, 0.2) has returned 1
C6_Witness ==
    /\ AfterCall
    /\ Len(preds) = 3
    /\ IsOneHot(preds, 1)
    /\ temperature = Rat(1, 5)
    /\ pc = "returned"
    /\ ret = 1

AllPositive(a) == \A k \in 1..Len(a) : a[k].k = "pow"

\* the exponent n/d of a stored value
Exponent(v) == <<v.n, v.d>>

RatSub(a, b) == Rat(a[1] * b[2] - b[1] * a[2], a[2] * b[2])

\* log_B of the ratio q[a] / q[b] of two positive entries of an array
LogRatio(q, a, b) == RatSub(Exponent(q[a]), Exponent(q[b]))

IsUniform(a) == a # <<>> /\ a[1].k = "pow" /\ \A k \in 1..Len(a) : a[k] = a[1]

\* C10 -- a uniform distribution over N classes at temperature 1.0: every
\* index of 0..N-1 is a possible result of the call, sample draws with the
\* same weight on all N indices (the weights of the input), it does not
\* fail, and what it returns is the single index of 0..N-1 its one trial
\* fell on.
C10_UniformAtOne ==
    /\ (caller = "direct" /\ pc = "sample" /\ IsUniform(s_preds)
          /\ temperature = Rat(1, 1)) =>
          \A k \in 0..(Len(s_preds) - 1) : ENABLED (Sample /\ ret' = k)
    /\ (AfterCall /\ IsUniform(preds) /\ temperature = Rat(1, 1)) =>
          /\ pc = "returned"
          /\ ret \in 0..(Len(preds) - 1)
          /\ probas = OneTrial(Len(preds), ret)
          /\ Support(s_preds) = 0..(Len(preds) - 1)
          /\ \A k \in 1..Len(preds) :
                /\ s_preds[k] = s_preds[1]
                /\ s_preds[k] = Frac(preds[k].n, preds[k].d)

\* sample has returned the last index of a uniform array of three classes at
\* temperature 1.0
C10_Witness ==
    /\ AfterCall
    /\ pc = "returned"
    /\ Len(preds) = 3
    /\ IsUniform(preds)
    /\ temperature = Rat(1, 1)
    /\ ret = 2

\* the four temperatures 0.2, 0.5, 1.0, 1.2 in the order of generation
FourTemperatures == <<Rat(1, 5), Rat(1, 2), Rat(1, 1), Rat(6, 5)>>

\* C11 -- the order of the training loop: a training pass (model.fit) adds
\* one training pass to the network and appends its loss, and it starts only
\* when the four generation passes of the iteration before are over; text is
\* generated only when the loss of the iteration has been appended; the
\* passes of an iteration are started one after the other, the next only
\* when the one before has ended, at the temperatures 0.2, 0.5, 1.0, 1.2 in
\* that order; the iteration ends after the fourth pass, and tr_losses has
\* then as many entries as iterations have ended.
C11_TrainingOrder ==
    [][/\ (pc = "train_loop" /\ pc' = "seed") =>
             /\ epochs' = epochs + 1
             /\ Len(tr_losses') = Len(tr_losses) + 1
             /\ Len(tr_losses') = iteration
             /\ iteration > 1 => dv = 4
       /\ tr_losses' # tr_losses => pc = "train_loop"
       /\ (InPass \/ pc = "seed" \/ pc = "pass_loop") => Len(tr_losses) = iteration
       /\ (pc = "pass_loop" /\ pc' = "gen_loop") =>
             /\ dv \in 0..3
             /\ diversity' = FourTemperatures[dv + 1]
             /\ dv' = dv
       /\ InPass => (dv \in 0..3 /\ diversity = FourTemperatures[dv + 1])
       /\ dv' # dv =>
             \/ pc = "seed" /\ dv' = 0
             \/ pc = "gen_loop" /\ pc' = "pass_loop" /\ dv' = dv + 1
       /\ iteration' # iteration =>
             \/ pc = "train_init" /\ iteration' = 1
             \/ /\ pc = "pass_loop"
                /\ dv = 4
                /\ iteration' = iteration + 1
                /\ Len(tr_losses) = iteration]_vars

\* the second training pass is about to start: the first iteration is over,
\* with one loss in tr_losses and its fourth pass, at temperature 1.2, ended
C11_Witness ==
    /\ pc = "train_loop"
    /\ iteration = 2
    /\ Len(tr_losses) = 1
    /\ dv = 4
    /\ diversity = Rat(6, 5)
    /\ Len(generated) > maxlen

\* C12 as claimed -- once the training loop has finished, the notebook goes
\* on to plot the loss curve: the last cell runs through plt.plot(tr_losses)
\* and no exception stops it.
C12_PlotReached == (pc = "plot") ~> (pc = "plotted" /\ err = "")

\* the seed of the iteration: text[start_index: start_index + maxlen]
SeedOfIteration == [j \in 1..maxlen |-> text[start_index + j]]

\* C13 -- the sampling state does not outlive a generation pass: every pass,
\* at every temperature of every iteration, starts with generated and
\* sentence both equal to the seed text[start_index: start_index + maxlen]
\* and nothing else, whatever the pass before sampled; start_index is drawn
\* once per iteration, before its first pass, so the four passes of an
\* iteration start from the same seed.
C13_PassStartsFromSeed ==
    [][/\ (pc = "pass_loop" /\ pc' = "gen_loop") =>
             /\ sentence' = SeedOfIteration
             /\ generated' = SeedOfIteration
             /\ i' = 0
       /\ (pc = "gen_loop" /\ i = 0) =>
             /\ sentence = SeedOfIteration
             /\ generated = SeedOfIteration
       /\ start_index' # start_index => pc = "seed"
       /\ SeedPicked => (text' = text /\ maxlen' = maxlen)]_vars

\* a pass after the first of its iteration starts from the seed, although
\* the pass before has sampled a character the seed does not hold
C13_Witness ==
    /\ pc = "gen_loop"
    /\ i = 0
    /\ dv >= 1
    /\ generated = SeedOfIteration
    /\ sentence = SeedOfIteration
    /\ \A j \in 1..maxlen : generated[j] # next_char

\* C14 -- the parameter counts: num_lstm_params(input_dim, num_cells) returns
\* 4 * (input_dim * num_cells + num_cells^2 + num_cells), the four gates of
\* an LSTM cell each with its input weights, recurrent weights and biases;
\* num_fc_params(input_dim, num_neurons) returns the weights and the biases
\* of a dense layer; for 59 characters and 128 units they return the three
\* counts of model.summary(), 96256, 16512 and 7611, which add up to its
\* total of 120379.
C14_ParamCounts ==
    /\ (pc = "counted" /\ count_fn = "num_lstm_params") =>
          LET a == count_args[1]
              b == count_args[2]
          IN /\ count_ret = 4 * a * b + 4 * b * b + 4 * b
             /\ (a = 59 /\ b = 128) => count_ret = SummaryLstm
    /\ (pc = "counted" /\ count_fn = "num_fc_params") =>
          LET a == count_args[1]
              b == count_args[2]
          IN /\ count_ret = (a + 1) * b
             /\ (a = 128 /\ b = 128) => count_ret = SummaryDense1
             /\ (a = 128 /\ b = 59) => count_ret = SummaryDense2
    /\ SummaryLstm = 96256 /\ SummaryDense1 = 16512 /\ SummaryDense2 = 7611
    /\ num_lstm_params(59, 128) + num_fc_params(128, 128) + num_fc_params(128, 59)
          = SummaryTotal
    /\ SummaryTotal = 120379

\* num_lstm_params(59, 128) has returned the count of the summary's LSTM layer
C14_Witness ==
    /\ pc = "counted"
    /\ count_fn = "num_lstm_params"
    /\ count_args = <<59, 128>>
    /\ count_ret = 96256

\* every character of the sequence s is a key of char2idx
AllKeys(s) == \A j \in 1..Len(s) : s[j] \in DOMAIN char2idx

\* C15 -- the mappings stay consistent with the vocabulary: no lookup of
\* char2idx or idx2char raises KeyError and no tensor index built from one
\* raises IndexError; in the vectorization loop every character of every
\* window and every next character is a key of char2idx; in a generation
\* pass, after any number of sampled characters, every character of the
\* rolling context sentence and of generated is a key of char2idx; and every
\* index sample returns to the loop is one of 0..N-1, a key of idx2char.
C15_LookupsHit ==
    /\ err \notin {"KeyError", "IndexError"}
    /\ pc = "vec_loop" =>
          /\ \A k \in 1..Len(sentences) : AllKeys(sentences[k])
          /\ AllKeys(next_chars)
    /\ InPass =>
          /\ AllKeys(sentence)
          /\ AllKeys(generated)
          /\ \A j \in 1..Len(sentence) : char2idx[sentence[j]] \in 0..(Len(chars) - 1)
    /\ pc = "gen_lookup" =>
          /\ next_index \in 0..(Len(chars) - 1)
          /\ next_index \in DOMAIN idx2char
          /\ idx2char[next_index] \in DOMAIN char2idx

\* sample has returned the last index of a vocabulary of two characters to a
\* pass whose context already holds a sampled character
C15_Witness ==
    /\ pc = "gen_lookup"
    /\ i >= 1
    /\ Len(chars) = 2
    /\ next_index = 1
    /\ sentence[Len(sentence)] = next_char
    /\ generated # SeedOfIteration

\* the last n elements of the sequence s
LastOf(s, n) == [j \in 1..n |-> s[Len(s) - n + j]]

\* C16 -- the rolling context: in a generation pass that has sampled i
\* characters, 0 <= i <= GenChars, generated has maxlen + i elements and
\* begins with the seed, sentence has exactly maxlen elements, the last
\* maxlen of generated; and each step of the pass appends the character of
\* the index sample returned to generated, leaving what it held before in
\* place, so that the sampled characters follow the seed in their order.
C16_RollingContext ==
    [][/\ InPass =>
             /\ i \in 0..GenChars
             /\ Len(generated) = maxlen + i
             /\ SubSeq(generated, 1, maxlen) = SeedOfIteration
             /\ Len(sentence) = maxlen
             /\ sentence = LastOf(generated, maxlen)
       /\ (pc = "gen_lookup" /\ pc' = "gen_loop") =>
             /\ i' = i + 1
             /\ generated' = generated \o <<idx2char[next_index]>>
             /\ Len(sentence') = maxlen
             /\ sentence' = LastOf(generated', maxlen)
       /\ (InPass /\ generated' # generated) => pc = "gen_lookup"
       /\ (InPass /\ sentence' # sentence) => pc = "gen_lookup"]_vars

\* a pass with a window of two characters has sampled all its characters,
\* and its context is no longer the seed
C16_Witness ==
    /\ pc = "gen_loop"
    /\ i = GenChars
    /\ maxlen = 2
    /\ Len(generated) = maxlen + GenChars
    /\ sentence = LastOf(generated, maxlen)
    /\ sentence # SeedOfIteration

\* the training loop has ended after Iterations training passes, each
\* followed by one draw of a seed and four generation passes of GenChars
\* calls of sample (a call draws from numpy's generator when the vocabulary
\* has two characters or more)
LoopEnded ==
    /\ pc = "plot"
    /\ iteration = Iterations + 1
    /\ epochs = Iterations
    /\ Len(tr_losses) = Iterations
    /\ py_rng = Iterations
    /\ np_rng = Iterations * 4 * GenChars * Draws(Len(chars))
    /\ dv = 4
    /\ i = GenChars
    /\ Len(generated) = maxlen + GenChars

\* random.randint did not return: the corpus is no longer than maxlen
SeedCallFailed ==
    /\ pc = "error"
    /\ err = "ValueError"
    /\ Len(text) <= maxlen

\* C17 -- the training / generation loop terminates: once started, and
\* unless a call fails to return (random.randint, on a corpus no longer than
\* maxlen), it ends, and when it has ended it has made exactly Iterations
\* training passes (59 in the notebook), tr_losses has that many entries,
\* and every training pass was followed by four generation passes of exactly
\* GenChars sampled characters (400 in the notebook): a pass ends only after
\* GenChars characters, an iteration only after four passes.
C17_LoopTerminates ==
    /\ (pc = "train_init") ~> (LoopEnded \/ SeedCallFailed)
    /\ [](pc = "plot" => LoopEnded)
    /\ [][/\ (InPass /\ dv' # dv) =>
                (dv' = dv + 1 /\ i = GenChars /\ Len(generated) = maxlen + GenChars)
          /\ (SeedPicked /\ iteration' # iteration) =>
                (iteration' = iteration + 1 /\ dv = 4 /\ Len(tr_losses) = iteration)
          /\ (pc = "train_loop" /\ pc' = "plot") => iteration = Iterations + 1]_vars

\* the loop has ended on a vocabulary of two characters: every call of
\* sample has drawn from numpy's generator
C17_Witness ==
    /\ LoopEnded
    /\ Len(chars) = 2
    /\ np_rng = Iterations * 4 * GenChars
    /\ np_rng > 0

====
